---- MODULE Spec2Model ----
(***************************************************************************)
(* The host-liveness sweep of the repository: a list of hostnames is read  *)
(* from a text file, every hostname is resolved and pinged, and a report   *)
(* is written.  Three shapes of the sweep are modelled, chosen by the      *)
(* variable script:                                                        *)
(*   ping.py, pingv9.py  a thread pool runs ping_host per hostname and the *)
(*                       main thread collects the futures as they complete *)
(*   rtsasyncro.py       asyncio.gather over one ping coroutine per line   *)
(*   rtsscrapy.py        a sequential loop that writes each row at once    *)
(*                                                                         *)
(* A target is a position of the hostnames list (the key of the           *)
(* future_to_host dictionary is the future submitted for that position).   *)
(* Library calls (socket.gethostbyname, ping3.ping, open) are modelled by  *)
(* the outcomes they can deliver to the calling code.                      *)
(*                                                                         *)
(* Specifications:                                                         *)
(*   Spec      one sweep of one script                                     *)
(*   LiveSpec  the same steps on inputs without blank lines, with weak     *)
(*             fairness, for termination                                   *)
(*   LogSpec   log_message calls of pingv9.py on a log file of earlier     *)
(*             days (timestamps, retention)                                *)
(*   RunsSpec  successive runs of one ping*.py variant and the log and     *)
(*             report files they leave                                     *)
(*   V7Spec    one sweep of pingV7.py, the pool with a single counter      *)
(*   SharedSpec  two processes in log_message of pingv9.py on one log file *)
(*   OrderedSpec one sweep of rtsv7.py, rtsmultiprocess.py (executor.map)  *)
(*             or rtsasyncro.py (asyncio.gather)                           *)
(***************************************************************************)
EXTENDS Integers, Sequences, FiniteSets, TLC

\* Bounds of the model.
MaxTargets == 2     \* lines of the input file
MaxWorkers == 2     \* largest worker budget tried (the scripts use 10 and 20)

VARIABLES
    script,         \* which script of the repository runs
    file,           \* the input file: a sequence of lines, each with its "\n"
    readable,       \* whether open(input_file, 'r') succeeds
    max_workers,    \* ThreadPoolExecutor(max_workers=...)
    pc,             \* position of the main thread
    hostnames,      \* the list built from the file
    submitted,      \* number of executor.submit calls made so far
    phase,          \* per target: position of its ping_host task
    resolve,        \* per target: what socket.gethostbyname delivered
    probe,          \* per target: what ping3.ping delivered
    started,        \* per target: how many times its task began to run
    completed,      \* the targets whose task has finished, in finishing order
    snapshot,       \* the futures already finished when as_completed began
    yielded,        \* futures as_completed has handed to the loop, in order
    results,        \* the results list of main
    progress,       \* the nonlocal counters of update_progress
    log,            \* the log file: a sequence of entries
    report,         \* the report file: <<>> while absent, else its rows
    clock,          \* datetime.now(): seconds and microseconds
    logfile,        \* ping_log.txt across runs: its lines, each with its prefix
    outdir,         \* the report files on disk: name and content of each
    runs,           \* what each run so far wrote: its report and its log lines
    call,           \* the last log_message call of pingv9.py: input and clocks
    callers         \* per process sharing the log file: its log_message call

\* The state of one sweep, and the files that outlive a run.
sweepvars == <<file, readable, max_workers, hostnames, submitted, phase,
               resolve, probe, started, completed, snapshot, yielded, results,
               progress, log, report>>

filevars == <<clock, logfile, outdir, runs, call, callers>>

vars == <<script, pc, sweepvars, filevars>>

-----------------------------------------------------------------------------
(* Scripts *)

PoolScripts == {"ping.py", "pingV7.py", "pingv9.py"}
Scripts     == {"ping.py", "pingv9.py", "rtsasyncro.py", "rtsscrapy.py"}
MapScripts  == {"rtsv7.py", "rtsmultiprocess.py"}

-----------------------------------------------------------------------------
(* Target loader: [line.strip() for line in file] *)

\* The lines tried at line n of the input file: a blank line, or a line that
\* names a host (odd lines name host a flush left, even lines host b indented).
InputLines(n) ==
    { <<"\n">>, IF n % 2 = 1 THEN <<"a", "\n">> ELSE <<" ", "b", "\n">> }

IsSpace(c) == c \in {" ", "\n"}

RECURSIVE lstrip(_)
lstrip(s) == IF s # <<>> /\ IsSpace(Head(s)) THEN lstrip(Tail(s)) ELSE s

RECURSIVE rstrip(_)
rstrip(s) ==
    IF s # <<>> /\ IsSpace(s[Len(s)]) THEN rstrip(SubSeq(s, 1, Len(s) - 1))
    ELSE s

strip(s) == rstrip(lstrip(s))

LoadHostnames(f) == [i \in 1..Len(f) |-> strip(f[i])]

\* file.read().splitlines(): the lines without their line end.
splitlines(f) == [i \in 1..Len(f) |-> SubSeq(f[i], 1, Len(f[i]) - 1)]

\* The list a script builds from its input file.
Loaded(s, f) == IF s \in MapScripts THEN splitlines(f) ELSE LoadHostnames(f)

RECURSIVE FilesOfLen(_)
FilesOfLen(n) ==
    IF n = 0 THEN { <<>> }
    ELSE { Append(f, l) : f \in FilesOfLen(n - 1), l \in InputLines(n) }

Files == UNION { FilesOfLen(n) : n \in 0..MaxTargets }

-----------------------------------------------------------------------------
(* Outcomes of the library calls *)

\* socket.gethostbyname: an address, socket.gaierror, or another exception
\* (UnicodeError for a label the idna codec refuses).
ResolveOutcomes == {"ok", "gaierror", "error"}

\* What the probe delivers to the script.
\*   pool scripts, ping3.ping: a positive delay, a delay of 0.0, None (timeout),
\*     False (a ping error with ping3.EXCEPTIONS off), an OS-level exception;
\*     ping3.errors.HostUnknown is not among them: ping3 raises only with
\*     ping3.EXCEPTIONS set, which no script does, and ip is an address.
\*   rtsscrapy.py, sr1: None, an echo reply (type 0), another ICMP message, an
\*     OS-level exception.
\*   rtsasyncro.py, wait_for(proc.communicate(), 1.2): the output of the ping
\*     command (an echo reply, a "Destination host unreachable" reply, "could
\*     not find host", "Request timed out"), or asyncio.TimeoutError when the
\*     1.2 s deadline passes first.
ProbeOutcomes(s) ==
    IF s \in PoolScripts THEN {"reply", "reply0", "timeout", "failed", "raise"}
    ELSE IF s = "rtsscrapy.py" THEN {"reply", "other_icmp", "timeout", "raise"}
    ELSE IF s \in MapScripts
    THEN {"reply", "unreachable", "notfound", "silent", "raise"}
    ELSE {"reply", "unreachable", "notfound", "silent", "deadline"}

\* The outcomes that reach the script as an exception.
Raised(r, p) == r = "error" \/ (r = "ok" /\ p \in {"raise", "deadline"})

ExcText(r, p) ==
    IF r = "error" THEN "UnicodeError"
    ELSE IF p = "deadline" THEN "TimeoutError"
    ELSE "PermissionError"

\* The address gethostbyname returns for a hostname ('' is INADDR_ANY).
AddressOf(h) ==
    CASE h = <<"a">> -> "10.0.0.1"
      [] h = <<"b">> -> "10.0.0.2"
      [] OTHER       -> "0.0.0.0"

-----------------------------------------------------------------------------
(* ping_host of the pool scripts *)

BadHostMarker(s) ==
    IF s \in {"pingV7.py", "pingv9.py"} THEN "Bad Host" ELSE "N/A"

\* Python truthiness of the value ping3.ping returned.
Truthy(p) == p = "reply"

\* Faulty variant: a probe without a reply is reported as a bad host too.
ping_host_NoReplyIsBadHost(s, h, r, p) ==
    IF r = "gaierror" \/ ~Truthy(p) THEN <<h, BadHostMarker(s), "offline">>
    ELSE <<h, AddressOf(h), "online">>

\* The tuple ping_host returns when it returns.
ping_host(s, h, r, p) ==
    IF r = "gaierror" THEN <<h, BadHostMarker(s), "offline">>
    ELSE <<h, AddressOf(h), IF Truthy(p) THEN "online" ELSE "offline">>

\* Faulty variant: a probe that timed out is put back on the work queue.
AfterProbe_RetryTimeout(p) == IF p = "timeout" THEN "queued" ELSE "finished"

\* A task returns after one resolution and at most one probe.
AfterProbe(p) == "finished"

-----------------------------------------------------------------------------
(* ping of rtsasyncro.py, and the classification of rtsscrapy.py *)

\* The marker strings in the output of the ping command.
Stdout(p) ==
    CASE p = "reply"       -> {"Reply from"}
      [] p = "unreachable" -> {"Reply from", "host unreachable"}
      [] p = "notfound"    -> {"Ping request could not find host"}
      [] p = "silent"      -> {"Request timed out"}
      [] OTHER             -> {}

\* The ping command writes its messages to standard output only.
Stderr(p) == {}

\* The exit status of the ping command: 0 when a reply came back.
ReturnCode(p) == IF p \in {"reply", "unreachable"} THEN 0 ELSE 1

\* The tuple ping returns when wait_for does not raise.
ping(ip, p) ==
    IF "Reply from" \in Stdout(p) THEN <<ip, "Online">>
    ELSE IF "host unreachable" \in Stdout(p) THEN <<ip, "Offline">>
    ELSE IF "Ping request could not find host" \in Stdout(p)
         THEN <<ip, "Bad hostname">>
    ELSE <<ip, "Request timeout">>

\* The row for the dictionary ping returns in rtsv7.py and rtsmultiprocess.py.
map_ping(s, ip, p) ==
    IF s = "rtsv7.py"
    THEN IF "Reply from" \in Stdout(p) THEN <<ip, "Online">>
         ELSE IF "could not find host" \in Stderr(p) THEN <<ip, "Bad hostname">>
         ELSE IF "Request timed out" \in Stdout(p)
              THEN <<ip, "Request timeout">>
         ELSE <<ip, "Offline">>
    ELSE IF ReturnCode(p) = 0 THEN <<ip, "Online">> ELSE <<ip, "Offline">>

scapy_status(r, p) ==
    IF r = "gaierror" THEN "Bad hostname"
    ELSE IF p = "timeout" THEN "Request timeout"
    ELSE IF p = "reply" THEN "Online"
    ELSE "Offline"

-----------------------------------------------------------------------------
(* Tasks *)

Targets == 1..Len(hostnames)

Running == { i \in Targets : phase[i] \in {"resolving", "probing"} }

Queued == { i \in Targets : phase[i] = "queued" }

Finished == { i \in Targets : phase[i] = "finished" }

\* Faulty variant: a thread per work item, whatever max_workers.
WorkerFree_ThreadPerItem == TRUE

\* Faulty variant: the pool runs one work item at a time.
WorkerFree_OneAtATime == Running = {}

\* A worker thread is free to take the next work item.
WorkerFree == Cardinality(Running) < max_workers

YieldedSet == { yielded[k] : k \in 1..Len(yielded) }

\* Faulty variant: the loop is left after the first future.
AllCollected_FirstOnly == YieldedSet # {} \/ Targets = {}

\* as_completed has yielded every future of future_to_host.
AllCollected == YieldedSet = Targets

-----------------------------------------------------------------------------
(* Logging, progress, report *)

ZeroProgress ==
    [completed_count |-> 0, online_count |-> 0, offline_count |-> 0,
     bad_host_count |-> 0]

\* Faulty variant: the increment of completed_count is lost.
update_progress_LostIncrement(c, status, ip) ==
    IF status = "online" THEN [c EXCEPT !.online_count = @ + 1]
    ELSE IF ip = "Bad Host" THEN [c EXCEPT !.bad_host_count = @ + 1]
    ELSE [c EXCEPT !.offline_count = @ + 1]

update_progress(c, status, ip) ==
    LET c1 == [c EXCEPT !.completed_count = @ + 1]
    IN  IF status = "online" THEN [c1 EXCEPT !.online_count = @ + 1]
        ELSE IF ip = "Bad Host" THEN [c1 EXCEPT !.bad_host_count = @ + 1]
        ELSE [c1 EXCEPT !.offline_count = @ + 1]

log_message(l, entry) == Append(l, entry)

Header == <<"HostName", "IP", "Online/Offline">>

CsvHeader == <<"IP", "Status">>

HeaderOf(s) == IF s \in PoolScripts THEN Header ELSE CsvHeader

\* create_excel of the pool scripts, csv.writer of rtsasyncro.py.
create_excel(s, data) == <<HeaderOf(s)>> \o [k \in 1..Len(data) |-> data[k].row]

-----------------------------------------------------------------------------
(* The clock and the log file of pingv9.py *)

LOG_RETENTION_DAYS == 7

\* timedelta(days=d), in seconds.
timedelta(d) == d * 86400

\* The instant a behaviour begins: late enough for a log of earlier days.
Epoch == [sec |-> timedelta(20), usec |-> 0]

\* The clock, dt later (dt given in seconds and microseconds).
Later(t, dt) ==
    LET us == t.usec + dt.usec
    IN  [sec |-> t.sec + dt.sec + (us \div 1000000), usec |-> us % 1000000]

\* strftime('%Y-%m-%d %H:%M:%S'): the text of an instant, to the second.
strftime(t) == [ok |-> TRUE, sec |-> t.sec]

\* A line prefix that strptime rejects with ValueError.
NotAStamp == [ok |-> FALSE, sec |-> 0]

\* datetime.strptime(prefix, '%Y-%m-%d %H:%M:%S') where it returns.
strptime(prefix) == [sec |-> prefix.sec, usec |-> 0]

\* Faulty variant: an entry aged exactly the retention period is kept.
WithinDays_Inclusive(current_time, entry_time, days) ==
    LET ds == current_time.sec - entry_time.sec
        du == current_time.usec - entry_time.usec
    IN  ds < timedelta(days) \/ (ds = timedelta(days) /\ du <= 0)

\* current_time - entry_time < timedelta(days=days)
WithinDays(current_time, entry_time, days) ==
    LET ds == current_time.sec - entry_time.sec
        du == current_time.usec - entry_time.usec
    IN  ds < timedelta(days) \/ (ds = timedelta(days) /\ du < 0)

\* The lines log.write(log_entry + "\n") adds for a message of one or more
\* lines: the first carries the timestamp, the others begin with their text.
LogEntry(timestamp, message) ==
    [k \in 1..Len(message) |->
        [prefix |-> IF k = 1 THEN timestamp ELSE NotAStamp,
         text |-> message[k]]]

\* Faulty variant: a line whose prefix does not parse is kept.
Retained_KeepMalformed(entry, current_time) ==
    ~entry.prefix.ok
        \/ WithinDays(current_time, strptime(entry.prefix), LOG_RETENTION_DAYS)

\* Whether purge_old_logs keeps a line: its prefix parses and is recent.
Retained(entry, current_time) ==
    /\ entry.prefix.ok
    /\ WithinDays(current_time, strptime(entry.prefix), LOG_RETENTION_DAYS)

\* What strptime raises on a prefix.
StrptimeRaises(prefix) == IF prefix.ok THEN "none" ELSE "ValueError"

\* try: ... except ValueError: continue
Handled(exc) == exc \in {"none", "ValueError"}

\* An exception leaves purge_old_logs before it rewrites the file.
PurgeFails(log_entries) ==
    \E k \in 1..Len(log_entries) :
        ~Handled(StrptimeRaises(log_entries[k].prefix))

purge_old_logs(log_entries, current_time) ==
    LET Keep(entry) == Retained(entry, current_time)
    IN  IF PurgeFails(log_entries) THEN log_entries
        ELSE SelectSeq(log_entries, Keep)

\* Faulty variant: the cutoff is taken from the clock at the start.
LogFileAfter_CutoffAtStart(s, lines, message, t1, t2) ==
    LET appended == lines \o LogEntry(strftime(t1), message)
    IN  IF s = "pingv9.py" THEN purge_old_logs(appended, Epoch) ELSE appended

\* The log file after log_message(message, log_file) of script s, which reads
\* the clock at t1 for the timestamp; pingv9.py then prunes, reading it at t2.
LogFileAfter(s, lines, message, t1, t2) ==
    LET appended == lines \o LogEntry(strftime(t1), message)
    IN  IF s = "pingv9.py" THEN purge_old_logs(appended, t2) ELSE appended

NoCall == [n |-> 0, before |-> <<>>, message |-> <<>>, stamped |-> Epoch,
           purged |-> Epoch]

\* The processes that run pingv9.py on the same ping_log.txt.
Callers == {"A", "B"}

\* No process is inside log_message.
NoCallers ==
    [c \in Callers |-> [pc |-> "idle", written |-> <<>>, log_entries |-> <<>>]]

\* Spec follows one sweep and leaves the files across runs alone.
FilesAtRest ==
    /\ clock = Epoch
    /\ logfile = <<>>
    /\ outdir = {}
    /\ runs = <<>>
    /\ call = NoCall
    /\ callers = NoCallers

-----------------------------------------------------------------------------
(* Initial state *)

PoolSizes(s) ==
    IF s \in PoolScripts \cup MapScripts THEN 1..MaxWorkers ELSE {0}

Init ==
    /\ script \in Scripts
    /\ file \in Files
    /\ readable \in BOOLEAN
    /\ max_workers \in PoolSizes(script)
    /\ pc = "start"
    /\ hostnames = <<>>
    /\ submitted = 0
    /\ phase = <<>>
    /\ resolve = <<>>
    /\ probe = <<>>
    /\ started = <<>>
    /\ completed = <<>>
    /\ snapshot = {}
    /\ yielded = <<>>
    /\ results = <<>>
    /\ progress = ZeroProgress
    /\ log = <<>>
    /\ report = <<>>
    /\ FilesAtRest

-----------------------------------------------------------------------------
(* The start of a run, up to the sweep *)

\* The log as main leaves it before the input file is opened.
LogAtStart(s, l) ==
    IF s \in {"ping.py", "pingV2.py", "pingV3.py", "pingV7.py"} THEN <<>>
    ELSE l

\* Whether the script goes on after open(input_file, 'r').
InputOpened == readable

\* Faulty variant: the output file is opened before the input file.
ReportAtOpen_OutputFirst(s, opened) ==
    IF s = "rtsscrapy.py" THEN <<CsvHeader>> ELSE <<>>

\* The report file after the statement that opens the input file:
\* rtsscrapy.py opens the output in the same with statement, after the input.
ReportAtOpen(s, opened) ==
    IF s = "rtsscrapy.py" /\ opened THEN <<CsvHeader>> ELSE <<>>

ReadInput ==
    /\ pc = "start"
    /\ report' = ReportAtOpen(script, InputOpened)
    /\ IF InputOpened
       THEN LET hs == Loaded(script, file)
                n  == Len(hs)
            IN  /\ hostnames' = hs
                /\ log' = IF script \in PoolScripts
                          THEN log_message(LogAtStart(script, log),
                                           <<"start", n>>)
                          ELSE log
                /\ phase' = [i \in 1..n |-> "new"]
                /\ resolve' = [i \in 1..n |-> "none"]
                /\ probe' = [i \in 1..n |-> "none"]
                /\ started' = [i \in 1..n |-> 0]
                /\ pc' = "sweep"
       ELSE /\ log' = LogAtStart(script, log)
            /\ pc' = "aborted"
            /\ UNCHANGED <<hostnames, phase, resolve, probe, started>>
    /\ UNCHANGED <<filevars, completed, snapshot, script, file, readable,
                   max_workers, submitted, yielded, results, progress>>

-----------------------------------------------------------------------------
(* Pool scripts: submission and worker threads *)

\* One executor.submit of the dictionary comprehension.
Submit ==
    /\ script \in PoolScripts \cup MapScripts
    /\ pc = "sweep"
    /\ submitted < Len(hostnames)
    /\ submitted' = submitted + 1
    /\ phase' = [phase EXCEPT ![submitted + 1] = "queued"]
    /\ UNCHANGED <<filevars, completed, snapshot, script, file, readable,
                   max_workers, pc, hostnames, resolve, probe, started,
                   yielded, results, progress, log, report>>

\* A free worker takes the oldest item of the work queue.
StartTask(i) ==
    /\ i \in Queued
    /\ \A j \in Queued : i <= j
    /\ WorkerFree
    /\ phase' = [phase EXCEPT ![i] = IF script \in MapScripts THEN "probing"
                                     ELSE "resolving"]
    /\ started' = [started EXCEPT ![i] = @ + 1]
    /\ UNCHANGED <<filevars, completed, snapshot, script, file, readable,
                   max_workers, pc, hostnames, submitted, resolve, probe,
                   yielded, results, progress, log, report>>

\* socket.gethostbyname(hostname) returns or raises in ping_host.
Resolve(i, r) ==
    /\ script \in PoolScripts
    /\ i \in Targets
    /\ phase[i] = "resolving"
    /\ resolve' = [resolve EXCEPT ![i] = r]
    /\ phase' = [phase EXCEPT ![i] = IF r = "ok" THEN "probing" ELSE "finished"]
    /\ completed' = IF r = "ok" THEN completed ELSE Append(completed, i)
    /\ UNCHANGED <<filevars, snapshot, script, file, readable, max_workers,
                   pc, hostnames, submitted, probe, started, yielded, results,
                   progress, log, report>>

\* The probe ends: ping3.ping(ip) returns or raises in ping_host; in
\* rtsasyncro.py wait_for returns the output or raises TimeoutError in ping;
\* in rtsv7.py and rtsmultiprocess.py the ping command ends or cannot be run.
Probe(i, p) ==
    /\ script \in PoolScripts \cup MapScripts \cup {"rtsasyncro.py"}
    /\ pc \in {"sweep", "collect"}
    /\ i \in Targets
    /\ phase[i] = "probing"
    /\ probe' = [probe EXCEPT ![i] = p]
    /\ phase' = [phase EXCEPT ![i] = AfterProbe(p)]
    /\ completed' = IF AfterProbe(p) = "finished" THEN Append(completed, i)
                    ELSE completed
    /\ UNCHANGED <<filevars, snapshot, script, file, readable, max_workers,
                   pc, hostnames, submitted, resolve, started, yielded,
                   results, progress, log, report>>

-----------------------------------------------------------------------------
(* Pool scripts: the collection loop *)

\* as_completed(future_to_host) is entered once every future is submitted:
\* it notes the futures that have finished by then.
AsCompleted ==
    /\ script \in PoolScripts
    /\ pc = "sweep"
    /\ submitted = Len(hostnames)
    /\ snapshot' = Finished
    /\ pc' = "collect"
    /\ UNCHANGED <<filevars, completed, script, file, readable, max_workers,
                   hostnames, submitted, phase, resolve, probe, started,
                   yielded, results, progress, log, report>>

\* Faulty variant: as_completed yields the futures of the snapshot and never
\* hands over a future that finishes later.
CanYield_SnapshotOnly(i) == i \in snapshot \ YieldedSet

\* The future as_completed may yield next: first the futures of the snapshot,
\* a set, in any order; then the others in the order they finish.
CanYield(i) ==
    IF snapshot \ YieldedSet # {} THEN i \in snapshot \ YieldedSet
    ELSE \E k \in 1..Len(completed) :
            /\ completed[k] = i
            /\ i \notin YieldedSet
            /\ \A j \in 1..(k - 1) : completed[j] \in YieldedSet

\* Faulty variant: the workers share the variables of ping_host, so a row
\* carries the outcome of the task that finished last.
Collected_SharedOutcome(rs, i) ==
    LET j == completed[Len(completed)]
    IN  IF Raised(resolve[i], probe[i]) THEN rs
        ELSE Append(rs, [target |-> i,
                         row |-> ping_host(script, hostnames[i], resolve[j],
                                           probe[j])])

\* results after the try/except of one loop iteration.
Collected(rs, i) ==
    IF Raised(resolve[i], probe[i]) THEN rs
    ELSE Append(rs, [target |-> i,
                     row |-> ping_host(script, hostnames[i], resolve[i],
                                       probe[i])])

\* The log after the try/except of one loop iteration.
Diagnosed(l, i) ==
    IF Raised(resolve[i], probe[i])
    THEN log_message(l, <<"exception", hostnames[i],
                          ExcText(resolve[i], probe[i])>>)
    ELSE l

\* The counters after one loop iteration of pingv9.py.
Progressed(c, i) ==
    LET row == ping_host(script, hostnames[i], resolve[i], probe[i])
        c1  == IF Raised(resolve[i], probe[i]) THEN c
               ELSE update_progress(c, row[3], row[2])
    IN  update_progress(c1, "offline", "Bad Host")

\* update_progress() of pingV7.py: one more completion, nothing else.
update_progress_V7(c) == [c EXCEPT !.completed_count = @ + 1]

\* Faulty variant: pingV7.py also counts in the try branch.
ProgressedV7_AlsoInTry(c, i) ==
    LET c1 == IF Raised(resolve[i], probe[i]) THEN c
              ELSE update_progress_V7(c)
    IN  update_progress_V7(c1)

\* The counter after one loop iteration of pingV7.py (finally branch only).
ProgressedV7(c, i) == update_progress_V7(c)

\* One iteration of "for future in as_completed(future_to_host)".
Collect(i) ==
    /\ script \in PoolScripts
    /\ pc = "collect"
    /\ i \in Finished
    /\ CanYield(i)
    /\ yielded' = Append(yielded, i)
    /\ results' = Collected(results, i)
    /\ log' = Diagnosed(log, i)
    /\ progress' = IF script = "pingv9.py" THEN Progressed(progress, i)
                   ELSE IF script = "pingV7.py"
                   THEN ProgressedV7(progress, i)
                   ELSE progress
    /\ UNCHANGED <<filevars, completed, snapshot, script, file, readable,
                   max_workers, pc, hostnames, submitted, phase, resolve,
                   probe, started, report>>

\* as_completed is exhausted and the with block is left.
ExitPool ==
    /\ script \in PoolScripts
    /\ pc = "collect"
    /\ AllCollected
    /\ pc' = "report"
    /\ UNCHANGED <<filevars, completed, snapshot, script, file, readable,
                   max_workers, hostnames, submitted, phase, resolve, probe,
                   started, yielded, results, progress, log, report>>

-----------------------------------------------------------------------------
(* rtsasyncro.py: asyncio.gather *)

\* gather wraps every coroutine in a task; each runs up to its first await
\* before the event loop handles anything else.
GatherStart ==
    /\ script = "rtsasyncro.py"
    /\ pc = "sweep"
    /\ submitted < Len(hostnames)
    /\ submitted' = Len(hostnames)
    /\ phase' = [i \in Targets |-> "probing"]
    /\ started' = [i \in Targets |-> started[i] + 1]
    /\ UNCHANGED <<filevars, completed, snapshot, script, file, readable,
                   max_workers, pc, hostnames, resolve, probe, yielded,
                   results, progress, log, report>>

GatherRows == [i \in Targets |-> [target |-> i,
                                  row |-> ping(hostnames[i], probe[i])]]

\* Whether the exception of task i is left in the task by ping and gather.
Propagates(i) == Raised("ok", probe[i])

\* Every task has returned: gather returns the rows in input order.
GatherReturn ==
    /\ script = "rtsasyncro.py"
    /\ pc = "sweep"
    /\ submitted = Len(hostnames)
    /\ Finished = Targets
    /\ \A i \in Targets : ~Propagates(i)
    /\ results' = GatherRows
    /\ pc' = "report"
    /\ UNCHANGED <<filevars, completed, snapshot, script, file, readable,
                   max_workers, hostnames, submitted, phase, resolve, probe,
                   started, yielded, progress, log, report>>

\* A task has raised: gather raises in main, asyncio.run cancels the rest.
GatherRaise ==
    /\ script = "rtsasyncro.py"
    /\ pc = "sweep"
    /\ \E i \in Finished : Propagates(i)
    /\ phase' = [i \in Targets |->
                    IF phase[i] = "finished" THEN "finished" ELSE "cancelled"]
    /\ pc' = "crashed"
    /\ UNCHANGED <<filevars, completed, snapshot, script, file, readable,
                   max_workers, hostnames, submitted, resolve, probe, started,
                   yielded, results, progress, log, report>>

-----------------------------------------------------------------------------
(* rtsv7.py, rtsmultiprocess.py: list(executor.map(ping, ips)) *)

\* Faulty variant: the iterator hands out the futures as they finish.
NextOfMap_AsCompleted ==
    IF Len(yielded) < Len(completed) THEN completed[Len(yielded) + 1]
    ELSE Len(yielded) + 1

\* The future whose result the iterator of executor.map waits for: the
\* futures are taken in the order of submission.
NextOfMap == Len(yielded) + 1

\* list() takes the next result: the call of the future returned.
MapYield ==
    /\ script \in MapScripts
    /\ pc = "sweep"
    /\ submitted = Len(hostnames)
    /\ NextOfMap \in Finished
    /\ probe[NextOfMap] # "raise"
    /\ yielded' = Append(yielded, NextOfMap)
    /\ results' = Append(results,
                         [target |-> NextOfMap,
                          row |-> map_ping(script, hostnames[NextOfMap],
                                           probe[NextOfMap])])
    /\ UNCHANGED <<filevars, completed, snapshot, script, file, readable,
                   max_workers, pc, hostnames, submitted, phase, resolve,
                   probe, started, progress, log, report>>

\* list() takes the next result: the call raised, and so does result().
MapRaise ==
    /\ script \in MapScripts
    /\ pc = "sweep"
    /\ submitted = Len(hostnames)
    /\ NextOfMap \in Finished
    /\ probe[NextOfMap] = "raise"
    /\ pc' = "crashed"
    /\ UNCHANGED <<filevars, completed, snapshot, script, file, readable,
                   max_workers, hostnames, submitted, phase, resolve, probe,
                   started, yielded, results, progress, log, report>>

\* The iterator is exhausted and the with block is left.
MapDone ==
    /\ script \in MapScripts
    /\ pc = "sweep"
    /\ submitted = Len(hostnames)
    /\ Len(yielded) = Len(hostnames)
    /\ pc' = "report"
    /\ UNCHANGED <<filevars, completed, snapshot, script, file, readable,
                   max_workers, hostnames, submitted, phase, resolve, probe,
                   started, yielded, results, progress, log, report>>

-----------------------------------------------------------------------------
(* rtsscrapy.py: the sequential loop *)

\* The line being handled: the first one not yet dealt with.
Current == submitted + 1

\* The loop takes the next line and socket.gethostbyname returns or raises.
ScapyResolve(r) ==
    /\ script = "rtsscrapy.py"
    /\ pc = "sweep"
    /\ submitted < Len(hostnames)
    /\ phase[Current] = "new"
    /\ started' = [started EXCEPT ![Current] = @ + 1]
    /\ resolve' = [resolve EXCEPT ![Current] = r]
    /\ phase' = [phase EXCEPT ![Current] =
                    IF r = "ok" THEN "probing" ELSE "finished"]
    /\ report' = IF r = "gaierror"
                 THEN Append(report, <<hostnames[Current],
                                       scapy_status(r, "none")>>)
                 ELSE report
    /\ submitted' = IF r = "gaierror" THEN Current ELSE submitted
    /\ pc' = IF r = "error" THEN "crashed" ELSE pc
    /\ UNCHANGED <<filevars, completed, snapshot, script, file, readable,
                   max_workers, hostnames, probe, yielded, results, progress,
                   log>>

\* sr1 returns or raises; the row is written.
ScapyProbe(p) ==
    /\ script = "rtsscrapy.py"
    /\ pc = "sweep"
    /\ submitted < Len(hostnames)
    /\ phase[Current] = "probing"
    /\ probe' = [probe EXCEPT ![Current] = p]
    /\ phase' = [phase EXCEPT ![Current] = "finished"]
    /\ report' = IF p = "raise" THEN report
                 ELSE Append(report, <<hostnames[Current],
                                       scapy_status("ok", p)>>)
    /\ submitted' = IF p = "raise" THEN submitted ELSE Current
    /\ pc' = IF p = "raise" THEN "crashed" ELSE pc
    /\ UNCHANGED <<filevars, completed, snapshot, script, file, readable,
                   max_workers, hostnames, resolve, started, yielded, results,
                   progress, log>>

\* The loop is over and the files are closed; the last line of the script
\* reads start_time, which the script never sets: NameError.
ScapyEnd ==
    /\ script = "rtsscrapy.py"
    /\ pc = "sweep"
    /\ submitted = Len(hostnames)
    /\ pc' = "nameerror"
    /\ UNCHANGED <<filevars, completed, snapshot, script, file, readable,
                   max_workers, hostnames, submitted, phase, resolve, probe,
                   started, yielded, results, progress, log, report>>

-----------------------------------------------------------------------------
(* Report and summary *)

WriteReport ==
    /\ pc = "report"
    /\ report' = create_excel(script, results)
    /\ pc' = IF script \in PoolScripts THEN "summary" ELSE "done"
    /\ UNCHANGED <<filevars, completed, snapshot, script, file, readable,
                   max_workers, hostnames, submitted, phase, resolve, probe,
                   started, yielded, results, progress, log>>

SummaryLines(s) ==
    IF s = "pingv9.py"
    THEN << <<"finished">>, <<"total", Len(hostnames)>>,
            <<"counts", progress.online_count, progress.offline_count,
              progress.bad_host_count>>, <<"output">> >>
    ELSE IF s = "pingV7.py"
    THEN << <<"finished">>, <<"total", Len(hostnames)>>, <<"output">> >>
    ELSE << <<"finished">>, <<"total", Len(hostnames)>> >>

LogSummary ==
    /\ pc = "summary"
    /\ log' = log \o SummaryLines(script)
    /\ pc' = "done"
    /\ UNCHANGED <<filevars, completed, snapshot, script, file, readable,
                   max_workers, hostnames, submitted, phase, resolve, probe,
                   started, yielded, results, progress, report>>

-----------------------------------------------------------------------------

Next ==
    \/ ReadInput
    \/ Submit
    \/ \E i \in Targets : StartTask(i)
    \/ \E i \in Targets, r \in ResolveOutcomes : Resolve(i, r)
    \/ \E i \in Targets, p \in ProbeOutcomes(script) : Probe(i, p)
    \/ AsCompleted
    \/ \E i \in Targets : Collect(i)
    \/ ExitPool
    \/ GatherStart
    \/ GatherReturn
    \/ GatherRaise
    \/ \E r \in ResolveOutcomes : ScapyResolve(r)
    \/ \E p \in ProbeOutcomes(script) : ScapyProbe(p)
    \/ ScapyEnd
    \/ WriteReport
    \/ LogSummary

Spec == Init /\ [][Next]_vars

\* pingV7.py alone: the same pool, its own counter.
V7Init ==
    /\ script = "pingV7.py"
    /\ file \in Files
    /\ readable \in BOOLEAN
    /\ max_workers \in PoolSizes(script)
    /\ pc = "start"
    /\ hostnames = <<>>
    /\ submitted = 0
    /\ phase = <<>>
    /\ resolve = <<>>
    /\ probe = <<>>
    /\ started = <<>>
    /\ completed = <<>>
    /\ snapshot = {}
    /\ yielded = <<>>
    /\ results = <<>>
    /\ progress = ZeroProgress
    /\ log = <<>>
    /\ report = <<>>
    /\ FilesAtRest

V7Next ==
    \/ ReadInput
    \/ Submit
    \/ \E i \in Targets : StartTask(i)
    \/ \E i \in Targets, r \in ResolveOutcomes : Resolve(i, r)
    \/ \E i \in Targets, p \in ProbeOutcomes(script) : Probe(i, p)
    \/ AsCompleted
    \/ \E i \in Targets : Collect(i)
    \/ ExitPool
    \/ WriteReport
    \/ LogSummary

V7Spec == V7Init /\ [][V7Next]_vars

\* The scripts that hand the whole list to executor.map or asyncio.gather.
OrderedInit ==
    /\ script \in MapScripts \cup {"rtsasyncro.py"}
    /\ file \in Files
    /\ readable \in BOOLEAN
    /\ max_workers \in PoolSizes(script)
    /\ pc = "start"
    /\ hostnames = <<>>
    /\ submitted = 0
    /\ phase = <<>>
    /\ resolve = <<>>
    /\ probe = <<>>
    /\ started = <<>>
    /\ completed = <<>>
    /\ snapshot = {}
    /\ yielded = <<>>
    /\ results = <<>>
    /\ progress = ZeroProgress
    /\ log = <<>>
    /\ report = <<>>
    /\ FilesAtRest

OrderedNext ==
    \/ ReadInput
    \/ Submit
    \/ \E i \in Targets : StartTask(i)
    \/ \E i \in Targets, p \in ProbeOutcomes(script) : Probe(i, p)
    \/ MapYield
    \/ MapRaise
    \/ MapDone
    \/ GatherStart
    \/ GatherReturn
    \/ GatherRaise
    \/ WriteReport

OrderedSpec == OrderedInit /\ [][OrderedNext]_vars

-----------------------------------------------------------------------------
(* log_message of pingv9.py on a log file that earlier days have filled *)

MaxLogLines == 3    \* lines in the log file when a behaviour begins
MaxCalls == 2       \* log_message calls followed

\* No sweep is under way.
SweepAtRest ==
    /\ file = <<>>
    /\ readable = TRUE
    /\ max_workers = 1
    /\ hostnames = <<>>
    /\ submitted = 0
    /\ phase = <<>>
    /\ resolve = <<>>
    /\ probe = <<>>
    /\ started = <<>>
    /\ completed = <<>>
    /\ snapshot = {}
    /\ yielded = <<>>
    /\ results = <<>>
    /\ progress = ZeroProgress
    /\ log = <<>>
    /\ report = <<>>

\* Ages of the lines found in the log, in seconds before the epoch; the last
\* is a stamp of tomorrow, written before the clock was set back.
PriorAges ==
    { timedelta(10), timedelta(8), timedelta(LOG_RETENTION_DAYS),
      timedelta(LOG_RETENTION_DAYS) - 1, timedelta(1), 0 - timedelta(1) }

StampedLine(age) ==
    [prefix |-> [ok |-> TRUE, sec |-> Epoch.sec - age], text |-> "old"]

PriorLines ==
    { StampedLine(age) : age \in PriorAges }
        \cup { [prefix |-> NotAStamp, text |-> "old"] }

RECURSIVE LogsOfLen(_)
LogsOfLen(n) ==
    IF n = 0 THEN { <<>> }
    ELSE { Append(l, e) : l \in LogsOfLen(n - 1), e \in PriorLines }

PriorLogs == UNION { LogsOfLen(n) : n \in 0..MaxLogLines }

\* Messages of one line and of two lines.
Messages == { <<"m">>, <<"m", "more">> }

\* Time that passes before a call, and between its two clock reads.
Elapsed == { [sec |-> 0, usec |-> 0], [sec |-> timedelta(1), usec |-> 0] }

Slips == { [sec |-> 0, usec |-> 0], [sec |-> 0, usec |-> 500000],
           [sec |-> 1, usec |-> 0] }

LogInit ==
    /\ script = "pingv9.py"
    /\ pc = "logging"
    /\ SweepAtRest
    /\ clock = Epoch
    /\ logfile \in PriorLogs
    /\ outdir = {}
    /\ runs = <<>>
    /\ call = NoCall
    /\ callers = NoCallers

\* One call log_message(message, log_file): append, print, purge_old_logs.
LogMessage(message, d, e) ==
    /\ pc = "logging"
    /\ call.n < MaxCalls
    /\ LET t1 == Later(clock, d)
           t2 == Later(t1, e)
       IN  /\ logfile' = LogFileAfter(script, logfile, message, t1, t2)
           /\ call' = [n |-> call.n + 1, before |-> logfile,
                       message |-> message, stamped |-> t1, purged |-> t2]
           /\ clock' = t2
           /\ pc' = IF PurgeFails(logfile \o LogEntry(strftime(t1), message))
                    THEN "failed" ELSE pc
    /\ UNCHANGED <<script, sweepvars, outdir, runs, callers>>

LogNext ==
    \E message \in Messages, d \in Elapsed, e \in Slips :
        LogMessage(message, d, e)

LogSpec == LogInit /\ [][LogNext]_vars

-----------------------------------------------------------------------------
(* Runs of one script, one after the other, and the files they leave *)

MaxRuns == 2        \* runs followed

RunScripts == {"ping.py", "pingV2.py", "pingV3.py", "pingV7.py", "pingv9.py"}

\* Time that passes before a run starts, and between its start and its end.
Waits ==
    Elapsed \cup { [sec |-> 1, usec |-> 0],
                   [sec |-> timedelta(LOG_RETENTION_DAYS), usec |-> 0] }

\* The name of the report file of script s, generated at instant t: fixed in
\* ping.py, strftime('%d-%b-%y') in pingV2.py, to the second in the others.
output_file(s, t) ==
    IF s = "ping.py" THEN [pattern |-> "ping_results.xlsx", at |-> 0]
    ELSE IF s = "pingV2.py"
    THEN [pattern |-> "ping_results_%d-%b-%y.xlsx",
          at |-> t.sec \div timedelta(1)]
    ELSE [pattern |-> "ping_results_%d-%b-%y_%H-%M-%S.xlsx", at |-> t.sec]

NoFile == [pattern |-> "", at |-> 0]

\* wb.save(name): the directory afterwards.
Saved(dir, name, content) ==
    { f \in dir : f.name # name } \cup { [name |-> name, content |-> content] }

\* The messages main logs once the report is written.
EndMessages(s) ==
    IF s = "pingv9.py"
    THEN << <<"finished">>, <<"total">>, <<"counts">>, <<"output">> >>
    ELSE IF s \in {"ping.py", "pingV2.py"}
    THEN << <<"finished">>, <<"total">> >>
    ELSE << <<"finished">>, <<"total">>, <<"output">> >>

\* The log file after one log_message call per message, all at instant t.
RECURSIVE LogAll(_, _, _, _)
LogAll(s, lines, messages, t) ==
    IF messages = <<>> THEN lines
    ELSE LogAll(s, LogFileAfter(s, lines, Head(messages), t, t),
                Tail(messages), t)

\* The lines those calls write.
Written(messages, t) ==
    [k \in 1..Len(messages) |-> Head(LogEntry(strftime(t), messages[k]))]

RunsInit ==
    /\ script \in RunScripts
    /\ pc = "idle"
    /\ SweepAtRest
    /\ clock = Epoch
    /\ logfile = <<>>
    /\ outdir = {}
    /\ runs = <<>>
    /\ call = NoCall
    /\ callers = NoCallers

\* main up to the sweep: the log is cleared (not in pingv9.py) and the start
\* message logged.
RunStart(d) ==
    /\ pc = "idle"
    /\ Len(runs) < MaxRuns
    /\ LET t == Later(clock, d)
           messages == << <<"start">> >>
       IN  /\ clock' = t
           /\ logfile' = LogAll(script, LogAtStart(script, logfile),
                                messages, t)
           /\ runs' = Append(runs, [name |-> NoFile, content |-> 0,
                                    ended |-> FALSE,
                                    lines |-> Written(messages, t)])
    /\ pc' = "running"
    /\ UNCHANGED <<script, sweepvars, outdir, call, callers>>

\* main after the sweep: the report is saved under its name and the summary
\* logged.
RunEnd(d) ==
    /\ pc = "running"
    /\ LET t == Later(clock, d)
           name == output_file(script, t)
           this == Len(runs)
       IN  /\ clock' = t
           /\ outdir' = Saved(outdir, name, this)
           /\ logfile' = LogAll(script, logfile, EndMessages(script), t)
           /\ runs' = [runs EXCEPT ![this] =
                         [name |-> name, content |-> this, ended |-> TRUE,
                          lines |-> @.lines
                                      \o Written(EndMessages(script), t)]]
    /\ pc' = "idle"
    /\ UNCHANGED <<script, sweepvars, call, callers>>

RunsNext ==
    \/ \E d \in Waits : RunStart(d)
    \/ \E d \in Waits : RunEnd(d)

RunsSpec == RunsInit /\ [][RunsNext]_vars

-----------------------------------------------------------------------------
(* Two processes in log_message of pingv9.py on the same log file *)

\* Between two log_message calls a second passes.
Tick == [sec |-> 1, usec |-> 0]

SharedInit ==
    /\ script = "pingv9.py"
    /\ pc = "shared"
    /\ SweepAtRest
    /\ clock = Epoch
    /\ logfile \in { l \in PriorLogs : Len(l) <= 1 }
    /\ outdir = {}
    /\ runs = <<>>
    /\ call = NoCall
    /\ callers = NoCallers

\* with open(log_file, 'a') as log: log.write(log_entry + "\n")
LogAppend(c) ==
    /\ pc = "shared"
    /\ callers[c].pc = "idle"
    /\ Len(callers[c].written) < MaxCalls
    /\ LET log_entry == LogEntry(strftime(clock), <<c>>)
       IN  /\ logfile' = logfile \o log_entry
           /\ callers' = [callers EXCEPT ![c].pc = "appended",
                                         ![c].written = @ \o log_entry]
    /\ clock' = Later(clock, Tick)
    /\ UNCHANGED <<script, pc, sweepvars, outdir, runs, call>>

\* purge_old_logs: log_entries = log.readlines()
PurgeRead(c) ==
    /\ pc = "shared"
    /\ callers[c].pc = "appended"
    /\ callers' = [callers EXCEPT ![c].pc = "read",
                                  ![c].log_entries = logfile]
    /\ UNCHANGED <<script, pc, sweepvars, clock, logfile, outdir, runs, call>>

\* purge_old_logs: the filter, then open(log_file, 'w') and writelines.
PurgeRewrite(c) ==
    /\ pc = "shared"
    /\ callers[c].pc = "read"
    /\ logfile' = purge_old_logs(callers[c].log_entries, clock)
    /\ callers' = [callers EXCEPT ![c].pc = "idle", ![c].log_entries = <<>>]
    /\ UNCHANGED <<script, pc, sweepvars, clock, outdir, runs, call>>

SharedNext ==
    \/ \E c \in Callers : LogAppend(c)
    \/ \E c \in Callers : PurgeRead(c)
    \/ \E c \in Callers : PurgeRewrite(c)

SharedSpec == SharedInit /\ [][SharedNext]_vars

-----------------------------------------------------------------------------
(* Properties *)

LoopOver == pc \in {"report", "summary", "done"}

RowsOf(i) == { k \in 1..Len(results) : results[k].target = i }

\* The task of target i ended in an exception.
TaskRaised(i) ==
    Raised(IF script = "rtsasyncro.py" THEN "ok" ELSE resolve[i], probe[i])

LogHas(entry) == \E k \in 1..Len(log) : log[k] = entry

\* C1: completeness. When the collection loop of a pool script has ended, the
\* results list holds exactly one entry per submitted target, whether the
\* target's task returned or raised.
C1_Completeness ==
    (script \in PoolScripts /\ LoopOver) =>
        /\ Len(results) = Len(hostnames)
        /\ \A i \in Targets : Cardinality(RowsOf(i)) = 1

\* C2: a task that raised (not a resolution failure) has been handled by the
\* loop: the run goes on, the log holds a line with the error text, and the
\* results hold a row with status offline for that target.
C2_RaisedTaskYieldsOfflineRow ==
    \A i \in YieldedSet :
        (script \in PoolScripts /\ TaskRaised(i)) =>
            /\ pc \notin {"crashed", "aborted"}
            /\ LogHas(<<"exception", hostnames[i],
                        ExcText(resolve[i], probe[i])>>)
            /\ \E k \in RowsOf(i) : results[k].row[3] = "offline"

\* C3: concurrency bound. In a pool script the number of tasks that have
\* started and not finished never exceeds max_workers.
C3_ConcurrencyBound ==
    script \in PoolScripts => Cardinality(Running) <= max_workers

\* C3 witness: every task is submitted, the workers are all busy and a task
\* waits in the queue.
C3_Witness ==
    /\ script \in PoolScripts
    /\ submitted = Len(hostnames)
    /\ Len(hostnames) > max_workers
    /\ Cardinality(Running) = max_workers
    /\ Queued # {}

DeadlinePassed(i) == probe[i] \in {"timeout", "silent", "deadline"}

\* C4: a probe that exceeds its deadline is absorbed per target. With such a
\* target the run does not end in an exception, and the finished run's report
\* holds a row for the target (offline or request timeout) and a row for
\* every sibling whose task returned.
C4_TimeoutAbsorbed ==
    \A i \in Targets :
        (script \in PoolScripts \cup {"rtsasyncro.py"} /\ DeadlinePassed(i)) =>
            /\ started[i] = 1
            /\ pc # "crashed"
            /\ pc = "done" =>
                  /\ \E k \in RowsOf(i) :
                        /\ results[k].row[Len(results[k].row)]
                              \in {"offline", "Offline", "Request timeout"}
                        /\ \E n \in 2..Len(report) : report[n] = results[k].row
                  /\ \A j \in Targets :
                        ~TaskRaised(j) =>
                            \E k \in RowsOf(j), n \in 2..Len(report) :
                                report[n] = results[k].row

IsBadHostRow(row) == row[2] = BadHostMarker(script)

\* C5: every result carries one status of the taxonomy, and it is a bad-host
\* result exactly when resolution failed for its target, which is exactly
\* when it carries no resolved address; a resolved target carries its address.
C5_BadHostIffUnresolved ==
    /\ script \in PoolScripts =>
          \A k \in 1..Len(results) :
              LET i   == results[k].target
                  row == results[k].row
              IN  /\ row[3] \in {"online", "offline"}
                  /\ IsBadHostRow(row) <=> resolve[i] = "gaierror"
                  /\ IsBadHostRow(row) => row[3] = "offline"
                  /\ resolve[i] = "ok" => row[2] = AddressOf(hostnames[i])
    /\ script = "rtsscrapy.py" =>
          \A n \in 2..Len(report) :
              /\ report[n][2] \in {"Online", "Offline", "Bad hostname",
                                    "Request timeout"}
              /\ report[n][2] = "Bad hostname" <=> resolve[n - 1] = "gaierror"

\* C5 witness: the results hold a bad-host row and a row of a resolved target
\* that did not answer.
C5_Witness ==
    /\ script \in PoolScripts
    /\ \E k1, k2 \in 1..Len(results) :
          /\ IsBadHostRow(results[k1].row)
          /\ resolve[results[k2].target] = "ok"
          /\ results[k2].row[3] = "offline"

\* C6: in a pool script every target's task is started once: never more than
\* once, and once the collection loop is over, exactly once.
C6_StartedExactlyOnce ==
    script \in PoolScripts =>
        /\ \A i \in Targets : started[i] <= 1
        /\ LoopOver => \A i \in Targets : started[i] = 1

\* C6 witness: a finished run in which one probe timed out and one task raised.
C6_Witness ==
    /\ script \in PoolScripts
    /\ pc = "done"
    /\ \E i, j \in Targets : probe[i] = "timeout" /\ TaskRaised(j)
    /\ \A i \in Targets : started[i] = 1

SummaryLogged ==
    \E k \in 1..Len(log) : log[k][1] \in {"finished", "total", "counts", "output"}

\* C7: in a pool script the report is written, and the summary logged, only
\* after every submitted task has finished.
C7_ReportAfterAllFinished ==
    (script \in PoolScripts /\ (report # <<>> \/ SummaryLogged)) =>
        /\ submitted = Len(hostnames)
        /\ Finished = Targets

\* C7 witness: the report of a run over two targets has been written.
C7_Witness ==
    /\ script \in PoolScripts
    /\ report # <<>>
    /\ Len(hostnames) = 2

NonEmptyLine(h) == h # <<>>

\* C8: the loaded targets are the stripped non-empty lines of the file, in
\* order; blank lines give no target.
C8_OneTargetPerNonEmptyLine ==
    pc \notin {"start", "aborted"} =>
        hostnames = SelectSeq(LoadHostnames(file), NonEmptyLine)

NoNonEmptyLine == \A n \in 1..Len(file) : strip(file[n]) = <<>>

\* C9: for a file without a non-empty line a pool script starts no probe,
\* reports a total of 0 targets and writes a report with the header row only.
C9_EmptyInput ==
    (script \in PoolScripts /\ NoNonEmptyLine) =>
        /\ \A i \in Targets : started[i] = 0
        /\ \A k \in 1..Len(log) :
              log[k][1] \in {"start", "total"} => log[k][2] = 0
        /\ Len(report) <= 1

\* C10: when the input file cannot be opened the run aborts before any work:
\* no target is loaded, no task is submitted or started, no report file is
\* written.
C10_UnreadableInputAborts ==
    ~readable =>
        /\ pc \in {"start", "aborted"}
        /\ hostnames = <<>>
        /\ submitted = 0
        /\ report = <<>>

\* C10 witness: a run on an unreadable file of two lines has aborted.
C10_Witness ==
    /\ ~readable
    /\ pc = "aborted"
    /\ Len(file) = 2

\* The rows of results, by position.
ResultRows == [k \in 1..Len(results) |-> results[k].row]

IsOnlineRow(row) == row[3] = "online"

IsOfflineRow(row) == row[3] = "offline" /\ ~IsBadHostRow(row)

OnlineRows == { k \in 1..Len(results) : IsOnlineRow(ResultRows[k]) }

OfflineRows == { k \in 1..Len(results) : IsOfflineRow(ResultRows[k]) }

BadHostRows == { k \in 1..Len(results) : IsBadHostRow(ResultRows[k]) }

\* C11: at the end of a pingv9.py run the three counters equal the numbers of
\* collected results that are online, offline with a resolved address, and
\* bad-host, so that they add up to the number of targets.
C11_CountersMatchResults ==
    (script = "pingv9.py" /\ pc = "done") =>
        /\ progress.online_count = Cardinality(OnlineRows)
        /\ progress.offline_count = Cardinality(OfflineRows)
        /\ progress.bad_host_count = Cardinality(BadHostRows)
        /\ progress.online_count + progress.offline_count
             + progress.bad_host_count = Len(hostnames)

\* C12: in pingv9.py the completed count is the number of futures collected so
\* far, never exceeds the number of hostnames, and equals it at run end.
C12_CompletedCountIsProgress ==
    script = "pingv9.py" =>
        /\ progress.completed_count = Len(yielded)
        /\ progress.completed_count <= Len(hostnames)
        /\ pc = "done" => progress.completed_count = Len(hostnames)

\* The targets of the entries of results, in the order of the entries.
ResultTargets == [k \in 1..Len(results) |-> results[k].target]

\* C16: once a pool script has written its report, the report holds exactly
\* one row per target, and the rows are those of the targets in the order in
\* which their tasks finished.
C16_ReportRowsInCompletionOrder ==
    (script \in PoolScripts /\ pc \in {"summary", "done"}) =>
        /\ Len(report) = Len(hostnames) + 1
        /\ report = create_excel(script, results)
        /\ ResultTargets = completed

\* The update_progress calls one loop iteration makes for target i: one in
\* the try branch when future.result() returns, one in the finally branch.
ProgressCalls(i) == IF Raised(resolve[i], probe[i]) THEN 1 ELSE 2

RECURSIVE SumCalls(_)
SumCalls(s) == IF s = <<>> THEN 0 ELSE ProgressCalls(Head(s)) + SumCalls(Tail(s))

\* The targets whose future has been yielded and returned a row.
Returned == { i \in YieldedSet : ~Raised(resolve[i], probe[i]) }

\* No append and no counter update of the collecting loop is lost or applied
\* twice.
SharedStateIntact ==
    script \in PoolScripts =>
        /\ Len(results) = Cardinality(Returned)
        /\ \A i \in Targets :
              Cardinality(RowsOf(i)) = IF i \in Returned THEN 1 ELSE 0
        /\ script = "pingv9.py" =>
              /\ progress.completed_count = SumCalls(yielded)
              /\ progress.online_count + progress.offline_count
                   + progress.bad_host_count = progress.completed_count

\* results and the counters change only in a step of the collecting loop,
\* which yields one future; no task changes its position in that step.
OnlyCollectorMutates ==
    (script \in PoolScripts /\ (results' # results \/ progress' # progress)) =>
        /\ pc = "collect"
        /\ Len(yielded') = Len(yielded) + 1
        /\ phase' = phase

\* C18: shared state is safe under concurrent completion. In every
\* interleaving of the tasks every append to results and every update_progress
\* call of the loop takes effect exactly once, and results and the counters
\* are changed only by the collecting thread, never by a step of a worker.
C18_SharedStateSafe == []SharedStateIntact /\ [][OnlyCollectorMutates]_vars

\* Two tasks finished while the main thread was still submitting, and both
\* were collected.
C18_Witness ==
    /\ script = "pingv9.py"
    /\ max_workers > 1
    /\ Cardinality(snapshot) > 1
    /\ Len(results) > 1
    /\ progress.online_count > 0

\* The task of target j can take its next step now: leave the queue, or
\* return from the call it is in.
CanStart(j) == ENABLED StartTask(j)

CanReturn(j) ==
    \/ ENABLED (\E r \in ResolveOutcomes : Resolve(j, r))
    \/ ENABLED (\E p \in ProbeOutcomes(script) : Probe(j, p))

\* C19: blocking one worker does not stall the others. While the task of
\* target i sits in gethostbyname or in ping, every other task in flight can
\* return, a queued task can start whenever fewer than max_workers tasks are
\* in flight, and with two or more workers some other unfinished target can
\* always take a step.
C19_BlockedWorkerDoesNotStall ==
    script \in PoolScripts =>
        \A i \in Running :
            /\ \A j \in Running \ {i} : CanReturn(j)
            /\ (Queued # {} /\ Cardinality(Running) < max_workers) =>
                  \E j \in Queued : CanStart(j)
            /\ (max_workers >= 2 /\ (Running \cup Queued) \ {i} # {}) =>
                  \E j \in (Running \cup Queued) \ {i} :
                      CanStart(j) \/ CanReturn(j)

\* The first target is still in its probe; the second, started after it, has
\* run to its end meanwhile.
C19_Witness ==
    /\ script \in PoolScripts
    /\ max_workers >= 2
    /\ Len(hostnames) >= 2
    /\ phase[1] = "probing"
    /\ phase[2] = "finished"

\* The runs whose input file names a host on every line.
LiveInit == Init /\ \A k \in 1..Len(file) : strip(file[k]) # <<>>

\* Every step that stays possible is eventually taken: a call a task is
\* blocked in returns, a free worker takes the next work item, and the main
\* thread is not suspended forever.
LiveSpec == LiveInit /\ [][Next]_vars /\ WF_vars(Next)

\* C20: termination. A run of a pool script that has read its input
\* eventually has collected every future, written the report and logged the
\* run-end summary.
C20_RunTerminates ==
    (script \in PoolScripts /\ pc = "sweep") ~>
        (pc = "done" /\ AllCollected /\ report # <<>> /\ SummaryLogged)

\* A run over two targets has ended.
C20_Witness ==
    /\ script \in PoolScripts
    /\ pc = "done"
    /\ Len(hostnames) >= 2
    /\ AllCollected

\* The lines of a log whose leading timestamp parses and lies within the
\* retention window of the instant now, in their order.
InWindow(lines, now) ==
    LET Recent(entry) ==
            /\ entry.prefix.ok
            /\ WithinDays(now, strptime(entry.prefix), LOG_RETENTION_DAYS)
    IN  SelectSeq(lines, Recent)

\* C13 as stated: after a log_message call the log holds the earlier lines
\* within the window, in their order, followed by the whole new entry.
C13_RetainedThenNewEntry ==
    call.n > 0 =>
        logfile = InWindow(call.before, call.purged)
                      \o LogEntry(strftime(call.stamped), call.message)

\* C13: log retention. After one log_message call the log holds exactly the
\* earlier lines whose leading timestamp is less than seven days before the
\* clock the prune of that call reads, in their order, followed by the first
\* line of the new entry, the one that carries the timestamp.
C13_RetainedThenStampedLine ==
    call.n > 0 =>
        logfile = InWindow(call.before, call.purged)
                      \o << Head(LogEntry(strftime(call.stamped),
                                          call.message)) >>

\* The log held lines of ten, eight and one day ago; a two-line message was
\* logged; the one-day line and the stamped line remain.
C13_Witness ==
    /\ call.n = 1
    /\ call.before = << StampedLine(timedelta(10)), StampedLine(timedelta(8)),
                        StampedLine(timedelta(1)) >>
    /\ Len(call.message) = 2
    /\ logfile = << StampedLine(timedelta(1)),
                    [prefix |-> strftime(call.stamped), text |-> "m"] >>

\* C14: pruning drops malformed lines silently. After any log_message call
\* every line of the log begins with a timestamp that parses, and no line,
\* whatever its prefix, makes the call fail.
C14_MalformedLinesDropped ==
    /\ pc # "failed"
    /\ call.n > 0 => \A k \in 1..Len(logfile) : logfile[k].prefix.ok

\* A call on a log with a malformed line, for a message of two lines.
C14_Witness ==
    /\ call.n > 0
    /\ \E k \in 1..Len(call.before) : ~call.before[k].prefix.ok
    /\ Len(call.message) = 2
    /\ Len(logfile) > 0

\* A line is in the log file.
InLogFile(line) == \E i \in 1..Len(logfile) : logfile[i] = line

\* C15: the log is append-only across runs. Once a later run has started,
\* every line an earlier run wrote is still in the log file, unless its
\* timestamp has left the retention window.
C15_LogAppendOnlyAcrossRuns ==
    \A k \in 1..Len(runs) : \A j \in 1..Len(runs[k].lines) :
        (k < Len(runs)
            /\ WithinDays(clock, strptime(runs[k].lines[j].prefix),
                          LOG_RETENTION_DAYS))
        => InLogFile(runs[k].lines[j])

\* C17: report files of distinct runs never overwrite each other. The report
\* every finished run saved is still on disk, under its name and with that
\* run's content, whatever runs came later.
C17_ReportsNeverOverwritten ==
    \A k \in 1..Len(runs) :
        runs[k].ended =>
            [name |-> runs[k].name, content |-> runs[k].content] \in outdir

\* The leaf the task of target i has ended in: the bad-host leaf when
\* gethostbyname raised gaierror and no probe was sent, a probe leaf when the
\* probe delivered a value, none when the task ended in an exception.
Leaf(i) ==
    IF resolve[i] = "gaierror" /\ probe[i] = "none" THEN "bad host"
    ELSE IF resolve[i] = "ok" /\ probe[i] \notin {"none", "raise"}
    THEN "probed"
    ELSE "none"

\* C21: per-target state machine. In the pool scripts and in rtsscrapy.py a
\* probe is under way or done only for a target whose resolution succeeded,
\* and a task that has ended is in the bad-host leaf, without a probe, or in
\* exactly one probe leaf.
C21_PerTargetStateMachine ==
    script \in PoolScripts \cup {"rtsscrapy.py"} =>
        \A i \in DOMAIN phase :
            /\ phase[i] = "probing" => resolve[i] = "ok"
            /\ probe[i] # "none" => resolve[i] = "ok"
            /\ phase[i] = "finished" => Leaf(i) # "none"

\* The status the ping-output classifier owes an outcome of the probe.
StatusOwed(p) ==
    CASE p = "reply"       -> "Online"
      [] p = "unreachable" -> "Offline"
      [] p = "notfound"    -> "Bad hostname"
      [] OTHER             -> "Request timeout"

\* C22: in rtsasyncro.py a probe answered with "Destination host
\* unreachable" is classified Offline, never Online, whatever other marker
\* strings the output holds; an echo reply is classified Online and a name
\* that cannot be found Bad hostname.
C22_UnreachableIsOffline ==
    script = "rtsasyncro.py" =>
        \A k \in 1..Len(results) :
            results[k].row[2] = StatusOwed(probe[results[k].target])

\* A worker budget that does not grow with the input: whatever its value,
\* some input is longer; here the longest input of the model is.
FixedBudget == MaxTargets - 1

\* C23: in rtsasyncro.py the number of ping probes in flight at any instant
\* is bounded by a fixed worker budget, which does not grow with the number
\* of targets.
C23_AsyncInFlightBounded ==
    script = "rtsasyncro.py" => Cardinality(Running) <= FixedBudget

\* C24: target independence. In a pool script the row of a target is the
\* tuple ping_host builds from that target's own hostname, resolution and
\* probe outcome, and a target whose task returned has that row once the
\* loop is over: nothing about the other targets, their outcomes or
\* exceptions, the worker budget or the completion order enters it.
C24_TargetIndependence ==
    script \in PoolScripts =>
        /\ \A k \in 1..Len(results) :
              LET i == results[k].target
              IN  results[k].row =
                      ping_host(script, hostnames[i], resolve[i], probe[i])
        /\ LoopOver =>
              \A i \in Targets : ~TaskRaised(i) => RowsOf(i) # {}

\* Two workers; one task raised, another returned an online row, and the
\* loop is over.
C24_Witness ==
    /\ script \in PoolScripts
    /\ LoopOver
    /\ max_workers > 1
    /\ \E i, j \in Targets :
          /\ TaskRaised(j)
          /\ probe[i] = "reply"
          /\ RowsOf(i) # {}


\* C25: in pingV7.py completed_count is the number of loop iterations done so
\* far, whether the task returned or raised; it never exceeds the number of
\* hostnames and equals it when the collection loop has ended.
C25_CompletedCountOncePerTask ==
    script = "pingV7.py" =>
        /\ progress.completed_count = Len(yielded)
        /\ progress.completed_count <= Len(hostnames)
        /\ LoopOver => progress.completed_count = Len(hostnames)

\* A pingV7.py loop that has ended after one task raised and one returned.
C25_Witness ==
    /\ script = "pingV7.py"
    /\ LoopOver
    /\ \E i, j \in Targets : TaskRaised(i) /\ RowsOf(j) # {}
    /\ progress.completed_count = Len(hostnames)


\* C26: the count logged as "Total hostnames/machines pinged" at the end of a
\* run equals the number of data rows of the report written by the same run,
\* also when some probe task raised.
C26_LoggedTotalIsRowCount ==
    (script \in PoolScripts /\ report # <<>>) =>
        \A k \in 1..Len(log) :
            log[k][1] = "total" => log[k][2] = Len(report) - 1


\* The probe of a resolved target received an echo reply, whatever its delay.
ReplyReceived(p) == p \in {"reply", "reply0"}

\* C27: ping_host classifies a resolved target as online whenever its probe
\* received a reply, a reply measured at zero latency included, and as offline
\* only when no reply was received.
C27_OnlineIffReply ==
    script \in PoolScripts =>
        \A k \in 1..Len(results) :
            LET i == results[k].target
            IN  resolve[i] = "ok" =>
                    (results[k].row[3] = "online" <=> ReplyReceived(probe[i]))


\* C28: log_message never removes an entry whose timestamp is within the
\* retention window, also when two processes call it on the same log file at
\* the same time: every entry a caller has appended, and that is still within
\* the window, is in the log file.
C28_NoInWindowEntryLost ==
    \A c \in Callers : \A k \in 1..Len(callers[c].written) :
        LET entry == callers[c].written[k]
        IN  WithinDays(clock, strptime(entry.prefix), LOG_RETENTION_DAYS)
                => InLogFile(entry)


\* C29: in rtsv7.py, rtsmultiprocess.py and rtsasyncro.py the report holds one
\* row per line of the input file, in the order of the lines, whatever the
\* order in which the probes completed.
C29_RowsInInputOrder ==
    (script \in MapScripts \cup {"rtsasyncro.py"} /\ report # <<>>) =>
        /\ Len(report) = Len(file) + 1
        /\ \A k \in 1..Len(file) :
              /\ report[k + 1][1] = Loaded(script, file)[k]
              /\ report[k + 1] = IF script = "rtsasyncro.py"
                                 THEN ping(hostnames[k], probe[k])
                                 ELSE map_ping(script, hostnames[k], probe[k])

\* A report written after the second line's probe completed before the first.
C29_Witness ==
    /\ script \in MapScripts \cup {"rtsasyncro.py"}
    /\ report # <<>>
    /\ Len(completed) >= 2
    /\ completed[1] > completed[2]


\* Whole seconds from the stamp of a line to an instant; a stamp carries no
\* fraction of a second, so now - entry_time is this plus now's microseconds.
SecondsSince(entry, now) == now.sec - entry.prefix.sec

\* C30: purge_old_logs keeps a stamped line if and only if now - entry_time is
\* strictly less than 7 days: a line aged exactly 7 days is removed, a line
\* aged 7 days less a second is kept, a line stamped in the future is kept.
C30_StrictSevenDayCutoff ==
    call.n > 0 =>
        \A k \in 1..Len(call.before) :
            LET entry == call.before[k]
            IN  entry.prefix.ok =>
                    (InLogFile(entry)
                        <=> SecondsSince(entry, call.purged) < 7 * 86400)

\* One call that found lines of exactly 7 days, of 7 days less a second and
\* of tomorrow, and left the last two.
C30_Witness ==
    /\ call.n = 1
    /\ call.purged = Epoch
    /\ call.before = << StampedLine(timedelta(LOG_RETENTION_DAYS)),
                        StampedLine(timedelta(LOG_RETENTION_DAYS) - 1),
                        StampedLine(0 - timedelta(1)) >>
    /\ Len(logfile) = 3
    /\ logfile[1] = StampedLine(timedelta(LOG_RETENTION_DAYS) - 1)
    /\ logfile[2] = StampedLine(0 - timedelta(1))

====
